---- MODULE Spec2Model ----
(***************************************************************************)
(* zdbg: the process-control and breakpoint engine of src/src/dbg.rs.      *)
(*                                                                         *)
(* The debugger (tracer) is a sequential program; every trace syscall it   *)
(* issues is one step of the model, and the tracee is the environment: it  *)
(* chooses the status each waitpid reports, the program counter at each    *)
(* stop, and whether a ptrace request succeeds.                            *)
(*                                                                         *)
(* A 64-bit memory word is an integer; only  (val & !0xff) | 0xcc  and the *)
(* low byte are computed on it, both exact on TLA+ integers (floor         *)
(* division), negative words standing for words with the sign bit set.     *)
(***************************************************************************)
EXTENDS Integers, Sequences, FiniteSets, TLC

\* ---- bounds -------------------------------------------------------------
MaxAddr == 2     \* breakpoint candidates are the addresses 1..MaxAddr
MaxRuns == 2     \* forks per session
MaxKills == 2    \* kill requests per exit command

\* ---- program constants ---------------------------------------------------
INT3 == 204      \* 0xcc, "int 3"
BYTE == 256      \* 0xff + 1

Addrs == 1..MaxAddr
\* program-counter values at a stop; 0 is any address that is no candidate
RipVals == 0..MaxAddr
\* words of the executable image: 0xffffffffffffff55 and 0x1cc (whose low
\* byte is 0xcc already)
ImgWords == {-171, 460}

None == {}
Some(a) == {a}

LowByte(w) == w % BYTE

\* val_int3 = (val & !0xff) | 0xcc
val_int3_xor(val) == (val \div BYTE) * BYTE + ((LowByte(val) + INT3) % BYTE)
val_int3_lowonly(val) == INT3
val_int3(val) == (val \div BYTE) * BYTE + INT3

\* the address parser: the token after "break" (0 for a token that is no
\* address)
get_break_addr(c) == IF Len(c) >= 2 /\ c[2] \in Addrs THEN Some(c[2]) ELSE None

VARIABLES
  state,      \* the State the command loop holds: NotRunning, Running, Exit; Err for an Err(..) result
  err,        \* which error an Err result carries
  pc,         \* position of the handler in progress, "idle" between commands
  k,          \* where set_break returns to
  cmd,        \* the command vector being (or last) dispatched
  from,       \* the state that command was dispatched in
  pid,        \* DbgInfo.pid
  brk_addr,   \* DbgInfo.brk_addr : None or Some(addr)
  brk_val,    \* DbgInfo.brk_val
  filename,   \* DbgInfo.filename
  child,      \* do_run: the pid fork returned
  val,        \* set_break: the word read
  sba,        \* the result of the command's set_break_addr call
  image,      \* the text of the executable, word by address
  mem,        \* memory of the latest target process
  rip,        \* program counter of the target at its latest stop
  live,       \* forked processes no wait has reported exited or signaled yet
  forks,      \* number of forks so far
  inst,       \* history: the word the first successful install left in this process ({} before it)
  sys         \* the trace syscalls of the current command, with their outcomes

info == <<pid, brk_addr, brk_val, filename>>
vars == <<state, err, pc, k, cmd, from, pid, brk_addr, brk_val, filename,
          child, val, sba, image, mem, rip, live, forks, inst, sys>>

Issue(op, res) == sys' = Append(sys, <<op, res>>)

\* outcomes the tracee can give
Terminal == {"Exited", "Signaled"}
WaitOutcomes(p) == IF p \in live THEN {"Stopped", "Exited", "Signaled", "Other", "err"} ELSE {"err"}
PtraceOutcomes(p) == IF p \in live THEN {"ok", "err"} ELSE {"err"}

\* ZDbg::<NotRunning>::new
Init ==
  /\ state = "NotRunning" /\ err = "" /\ pc = "idle" /\ k = ""
  /\ cmd = <<>> /\ from = "NotRunning"
  /\ pid = 0 /\ brk_addr = None /\ brk_val = 0 /\ filename = "target"
  /\ child = 0 /\ val = 0 /\ sba = FALSE
  /\ image \in [Addrs -> ImgWords] /\ mem = image
  /\ rip = 0 /\ live = {} /\ forks = 0 /\ inst = {} /\ sys = <<>>

\* ---- command vectors the read loop can hand to do_cmd ---------------------
Tokens == {"run", "r", "break", "b", "exit", "continue", "c", "stepi", "s",
           "registers", "regs", "help", "h", "x"}
Cmds == {<<>>} \cup {<<t>> : t \in Tokens}
          \cup {<<b, a>> : b \in {"break", "b"}, a \in 0..MaxAddr}

\* a handler starts with an empty syscall trace and fresh locals
Begin(c) == cmd' = c /\ from' = state /\ sys' = <<>> /\ child' = 0 /\ val' = 0
Ret(s) == state' = s /\ pc' = "idle" /\ err' = err
Fail(e) == state' = "Err" /\ pc' = "idle" /\ err' = e

\* ---- impl<T> ZDbg<T> ------------------------------------------------------
\* set_break_addr: the value returned and the brk_addr left behind
set_break_addr_overwrite(c) ==
  IF get_break_addr(c) # None
    THEN [ret |-> TRUE, addr |-> get_break_addr(c)]
    ELSE [ret |-> FALSE, addr |-> brk_addr]
set_break_addr_clear(c) ==
  IF brk_addr # None
    THEN [ret |-> FALSE, addr |-> None]
    ELSE IF get_break_addr(c) # None
           THEN [ret |-> TRUE, addr |-> get_break_addr(c)]
           ELSE [ret |-> FALSE, addr |-> brk_addr]
set_break_addr(c) ==
  IF brk_addr # None
    THEN [ret |-> FALSE, addr |-> brk_addr]
    ELSE IF get_break_addr(c) # None
           THEN [ret |-> TRUE, addr |-> get_break_addr(c)]
           ELSE [ret |-> FALSE, addr |-> brk_addr]

\* ---- impl ZDbg<NotRunning> : do_cmd ---------------------------------------
NotRunning_empty ==
  /\ state = "NotRunning" /\ pc = "idle"
  /\ Begin(<<>>) /\ sba' = FALSE
  /\ Ret("NotRunning")
  /\ k' = ""
  /\ UNCHANGED <<pid, brk_addr, brk_val, filename, image, mem, rip, live, forks, inst>>

NotRunning_run ==
  /\ state = "NotRunning" /\ pc = "idle"
  /\ forks < MaxRuns
  /\ \E c \in Cmds :
       /\ c # <<>> /\ c[1] \in {"run", "r"}
       /\ Begin(c)
  /\ sba' = FALSE
  /\ pc' = "do_run"
  /\ k' = ""
  /\ UNCHANGED <<state, err, pid, brk_addr, brk_val, filename, image, mem, rip, live, forks, inst>>

\* "break" | "b" => self.do_break(cmd): only the address is recorded
NotRunning_break ==
  /\ state = "NotRunning" /\ pc = "idle"
  /\ \E c \in Cmds :
       /\ c # <<>> /\ c[1] \in {"break", "b"}
       /\ Begin(c)
       /\ brk_addr' = set_break_addr(c).addr
       /\ sba' = set_break_addr(c).ret
  /\ Ret("NotRunning")
  /\ k' = ""
  /\ UNCHANGED <<pid, brk_val, filename, image, mem, rip, live, forks, inst>>

NotRunning_exit ==
  /\ state = "NotRunning" /\ pc = "idle"
  /\ Begin(<<"exit">>) /\ sba' = FALSE
  /\ Ret("Exit")
  /\ k' = ""
  /\ UNCHANGED <<pid, brk_addr, brk_val, filename, image, mem, rip, live, forks, inst>>

Misuse == {"continue", "c", "stepi", "s", "registers", "regs"}

NotRunning_reject_run(c) ==
  /\ sba' = FALSE
  /\ pc' = "cont" /\ state' = "Running" /\ err' = err
  /\ k' = ""
  /\ UNCHANGED <<pid, brk_addr, brk_val, filename, image, mem, rip, live, forks, inst>>
NotRunning_reject(c) ==
  /\ sba' = FALSE
  /\ Ret("NotRunning")
  /\ k' = ""
  /\ UNCHANGED <<pid, brk_addr, brk_val, filename, image, mem, rip, live, forks, inst>>

NotRunning_misuse ==
  /\ state = "NotRunning" /\ pc = "idle"
  /\ \E c \in Cmds :
       /\ c # <<>> /\ c[1] \in Misuse
       /\ Begin(c)
       /\ NotRunning_reject(c)

\* _ => self.do_cmd_common(cmd): help prints, anything else does nothing
NotRunning_common ==
  /\ state = "NotRunning" /\ pc = "idle"
  /\ \E c \in Cmds :
       /\ c # <<>> /\ c[1] \in {"help", "h", "x"}
       /\ Begin(c)
  /\ sba' = FALSE
  /\ Ret("NotRunning")
  /\ k' = ""
  /\ UNCHANGED <<pid, brk_addr, brk_val, filename, image, mem, rip, live, forks, inst>>

\* ---- impl ZDbg<NotRunning> : do_run ---------------------------------------
\* fork()?
do_run_fork ==
  /\ pc = "do_run"
  /\ \/ /\ Issue("fork", "ok")
        /\ child' = forks + 1 /\ forks' = forks + 1
        /\ live' = live \cup {forks + 1}
        /\ mem' = image /\ rip' = 0 /\ inst' = {}
        /\ pc' = "do_run_wait"
        /\ UNCHANGED <<state, err>>
     \/ /\ Issue("fork", "err")
        /\ Fail("fork")
        /\ UNCHANGED <<child, forks, live, mem, rip, inst>>
  /\ UNCHANGED <<k, cmd, from, pid, brk_addr, brk_val, filename, val, sba, image>>

\* ForkResult::Parent { child } => match waitpid(child, None)?
do_run_wait_anystatus(w) ==
  CASE w = "err" -> Fail("waitpid") /\ UNCHANGED <<pid, k>>
    [] OTHER -> pid' = child /\ pc' = "set_break" /\ k' = "step_and_break"
                              /\ UNCHANGED <<state, err>>
do_run_wait_nopid(w) ==
  CASE w = "Stopped" -> pid' = pid /\ pc' = "set_break" /\ k' = "step_and_break"
                        /\ UNCHANGED <<state, err>>
    [] w \in Terminal -> Fail("process failed to start") /\ UNCHANGED <<pid, k>>
    [] w = "err" -> Fail("waitpid") /\ UNCHANGED <<pid, k>>
    [] OTHER -> Fail("process is in an invalid state") /\ UNCHANGED <<pid, k>>
do_run_wait_notrunning(w) ==
  CASE w = "Stopped" -> pid' = child /\ pc' = "set_break" /\ k' = "step_and_break"
                        /\ UNCHANGED <<state, err>>
    [] w \in Terminal -> Ret("NotRunning") /\ UNCHANGED <<pid, k>>
    [] w = "err" -> Fail("waitpid") /\ UNCHANGED <<pid, k>>
    [] OTHER -> Fail("process is in an invalid state") /\ UNCHANGED <<pid, k>>
do_run_wait_noinstall(w) ==
  CASE w = "Stopped" -> pid' = child /\ pc' = "step_and_break" /\ k' = k
                        /\ UNCHANGED <<state, err>>
    [] w \in Terminal -> Fail("process failed to start") /\ UNCHANGED <<pid, k>>
    [] w = "err" -> Fail("waitpid") /\ UNCHANGED <<pid, k>>
    [] OTHER -> Fail("process is in an invalid state") /\ UNCHANGED <<pid, k>>
do_run_wait_status(w) ==
  CASE w = "Stopped" -> pid' = child /\ pc' = "set_break" /\ k' = "step_and_break"
                        /\ UNCHANGED <<state, err>>
    [] w \in Terminal -> Fail("process failed to start") /\ UNCHANGED <<pid, k>>
    [] w = "err" -> Fail("waitpid") /\ UNCHANGED <<pid, k>>
    [] OTHER -> Fail("process is in an invalid state") /\ UNCHANGED <<pid, k>>

do_run_wait ==
  /\ pc = "do_run_wait"
  /\ \E w \in WaitOutcomes(child) :
       /\ Issue("waitpid", w)
       /\ do_run_wait_status(w)
       /\ live' = IF w \in Terminal THEN live \ {child} ELSE live
       /\ rip' \in IF w = "Stopped" THEN RipVals ELSE {rip}
  /\ UNCHANGED <<cmd, from, brk_addr, brk_val, filename, child, val, sba, image, mem, forks, inst>>

\* ---- impl ZDbg<Running> : do_cmd ------------------------------------------
Running_empty ==
  /\ state = "Running" /\ pc = "idle"
  /\ Begin(<<>>) /\ sba' = FALSE
  /\ Ret("Running")
  /\ k' = ""
  /\ UNCHANGED <<pid, brk_addr, brk_val, filename, image, mem, rip, live, forks, inst>>

\* "break" | "b" => self.do_break(cmd)? : set_break only if the address was
\* recorded by this call
Running_break ==
  /\ state = "Running" /\ pc = "idle"
  /\ \E c \in Cmds :
       /\ c # <<>> /\ c[1] \in {"break", "b"}
       /\ Begin(c)
       /\ brk_addr' = set_break_addr(c).addr
       /\ sba' = set_break_addr(c).ret
       /\ IF set_break_addr(c).ret
            THEN pc' = "set_break" /\ k' = "ret" /\ UNCHANGED <<state, err>>
            ELSE Ret("Running") /\ k' = ""
  /\ UNCHANGED <<pid, brk_val, filename, image, mem, rip, live, forks, inst>>

Running_continue ==
  /\ state = "Running" /\ pc = "idle"
  /\ \E c \in {<<"continue">>, <<"c">>} : Begin(c)
  /\ sba' = FALSE
  /\ pc' = "step_and_break"
  /\ k' = ""
  /\ UNCHANGED <<state, err, pid, brk_addr, brk_val, filename, image, mem, rip, live, forks, inst>>

Running_registers ==
  /\ state = "Running" /\ pc = "idle"
  /\ \E c \in {<<"registers">>, <<"regs">>} : Begin(c)
  /\ sba' = FALSE
  /\ pc' = "registers"
  /\ k' = ""
  /\ UNCHANGED <<state, err, pid, brk_addr, brk_val, filename, image, mem, rip, live, forks, inst>>

Running_stepi ==
  /\ state = "Running" /\ pc = "idle"
  /\ \E c \in {<<"stepi">>, <<"s">>} : Begin(c)
  /\ sba' = FALSE
  /\ pc' = "do_stepi"
  /\ k' = ""
  /\ UNCHANGED <<state, err, pid, brk_addr, brk_val, filename, image, mem, rip, live, forks, inst>>

\* "run" | "r" => eprintln!("<<すでに実行中です>>")
Running_run_forks ==
  /\ state = "Running" /\ pc = "idle"
  /\ forks < MaxRuns
  /\ \E c \in {<<"run">>, <<"r">>} : Begin(c)
  /\ sba' = FALSE
  /\ pc' = "do_run"
  /\ k' = ""
  /\ UNCHANGED <<state, err, pid, brk_addr, brk_val, filename, image, mem, rip, live, forks, inst>>
Running_run ==
  /\ state = "Running" /\ pc = "idle"
  /\ \E c \in {<<"run">>, <<"r">>} : Begin(c)
  /\ sba' = FALSE
  /\ Ret("Running")
  /\ k' = ""
  /\ UNCHANGED <<pid, brk_addr, brk_val, filename, image, mem, rip, live, forks, inst>>

Running_exit ==
  /\ state = "Running" /\ pc = "idle"
  /\ Begin(<<"exit">>) /\ sba' = FALSE
  /\ pc' = "do_exit"
  /\ k' = ""
  /\ UNCHANGED <<state, err, pid, brk_addr, brk_val, filename, image, mem, rip, live, forks, inst>>

Running_common ==
  /\ state = "Running" /\ pc = "idle"
  /\ \E c \in Cmds :
       /\ c # <<>> /\ c[1] \in {"help", "h", "x"}
       /\ Begin(c)
  /\ sba' = FALSE
  /\ Ret("Running")
  /\ k' = ""
  /\ UNCHANGED <<pid, brk_addr, brk_val, filename, image, mem, rip, live, forks, inst>>

\* let args = ptrace::getregs(self.info.pid)?; print_regs(&args);
registers_getregs ==
  /\ pc = "registers"
  /\ \E r \in PtraceOutcomes(pid) :
       /\ Issue("getregs", r)
       /\ IF r = "ok" THEN Ret("Running") ELSE Fail("getregs")
  /\ UNCHANGED <<k, cmd, from, pid, brk_addr, brk_val, filename, child, val, sba, image, mem, rip, live, forks, inst>>

\* ---- set_break -----------------------------------------------------------
\* where the caller goes on once set_break has returned Ok(())
AfterSetBreak ==
  CASE k = "ret" -> Ret("Running")
    [] OTHER -> pc' = k /\ UNCHANGED <<state, err>>

\* no address recorded: return Ok(()); else ptrace::read, whose failure is
\* logged and returns Ok(())
set_break_read ==
  /\ pc = "set_break"
  /\ IF brk_addr = None
       THEN AfterSetBreak /\ UNCHANGED <<val, sys>>
       ELSE \E r \in PtraceOutcomes(pid), addr \in brk_addr :
              /\ Issue("read", r)
              /\ IF r = "ok"
                   THEN val' = mem[addr] /\ pc' = "set_break_write" /\ UNCHANGED <<state, err>>
                   ELSE AfterSetBreak /\ val' = val
  /\ UNCHANGED <<k, cmd, from, pid, brk_addr, brk_val, filename, child, sba, image, mem, rip, live, forks, inst>>

\* ptrace::write(pid, addr, val_int3); Ok => brk_val = val, Err => logged
set_break_write_savefirst ==
  /\ pc = "set_break_write"
  /\ \E r \in PtraceOutcomes(pid), addr \in brk_addr :
       /\ Issue("write", r)
       /\ brk_val' = val
       /\ IF r = "ok"
            THEN /\ mem' = [mem EXCEPT ![addr] = val_int3(val)]
                 /\ inst' = IF inst = {} THEN {val_int3(val)} ELSE inst
            ELSE UNCHANGED <<mem, inst>>
  /\ AfterSetBreak
  /\ UNCHANGED <<k, cmd, from, pid, brk_addr, filename, child, val, sba, image, rip, live, forks>>
set_break_write ==
  /\ pc = "set_break_write"
  /\ \E r \in PtraceOutcomes(pid), addr \in brk_addr :
       /\ Issue("write", r)
       /\ IF r = "ok"
            THEN /\ mem' = [mem EXCEPT ![addr] = val_int3(val)]
                 /\ brk_val' = val
                 /\ inst' = IF inst = {} THEN {val_int3(val)} ELSE inst
            ELSE UNCHANGED <<mem, brk_val, inst>>
  /\ AfterSetBreak
  /\ UNCHANGED <<k, cmd, from, pid, brk_addr, filename, child, val, sba, image, rip, live, forks>>

\* ---- step_and_break ------------------------------------------------------
\* Some((regs.rip) as *mut c_void) == self.info.brk_addr
at_break_always(r, b) == b # None
at_break(r, b) == Some(r) = b

\* let regs = getregs(self.info.pid)?; then the comparison
step_and_break_getregs ==
  /\ pc = "step_and_break"
  /\ \E r \in PtraceOutcomes(pid) :
       /\ Issue("getregs", r)
       /\ IF r = "ok"
            THEN /\ pc' = IF at_break(rip, brk_addr) THEN "step_and_break_step" ELSE "cont"
                 /\ UNCHANGED <<state, err>>
            ELSE Fail("getregs")
  /\ UNCHANGED <<k, cmd, from, pid, brk_addr, brk_val, filename, child, val, sba, image, mem, rip, live, forks, inst>>

\* ptrace::step(self.info.pid, None)?
step_and_break_step ==
  /\ pc = "step_and_break_step"
  /\ \E r \in PtraceOutcomes(pid) :
       /\ Issue("step", r)
       /\ IF r = "ok"
            THEN pc' = "step_and_break_wait" /\ UNCHANGED <<state, err>>
            ELSE Fail("step")
  /\ UNCHANGED <<k, cmd, from, pid, brk_addr, brk_val, filename, child, val, sba, image, mem, rip, live, forks, inst>>

\* match waitpid(self.info.pid, None)? : exited or signaled returns
\* NotRunning, anything else goes on to self.set_break()?
step_and_break_wait_clearpid(w) ==
  CASE w = "err" -> Fail("waitpid") /\ UNCHANGED <<k, pid>>
    [] w \in Terminal -> Ret("NotRunning") /\ k' = k /\ pid' = 0
    [] OTHER -> pc' = "set_break" /\ k' = "cont" /\ UNCHANGED <<state, err, pid>>
step_and_break_wait_noreturn(w) ==
  CASE w = "err" -> Fail("waitpid") /\ UNCHANGED <<k, pid>>
    [] OTHER -> pc' = "set_break" /\ k' = "cont" /\ UNCHANGED <<state, err, pid>>
step_and_break_wait_status(w) ==
  CASE w = "err" -> Fail("waitpid") /\ UNCHANGED <<k, pid>>
    [] w \in Terminal -> Ret("NotRunning") /\ UNCHANGED <<k, pid>>
    [] OTHER -> pc' = "set_break" /\ k' = "cont" /\ UNCHANGED <<state, err, pid>>

step_and_break_wait ==
  /\ pc = "step_and_break_wait"
  /\ \E w \in WaitOutcomes(pid) :
       /\ Issue("waitpid", w)
       /\ step_and_break_wait_status(w)
       /\ live' = IF w \in Terminal THEN live \ {pid} ELSE live
       /\ rip' \in IF w = "Stopped" THEN RipVals ELSE {rip}
  /\ UNCHANGED <<cmd, from, brk_addr, brk_val, filename, child, val, sba, image, mem, forks, inst>>

\* ---- do_continue ---------------------------------------------------------
\* State::Running(r) => ptrace::cont(r.info.pid, None); the result is dropped
do_continue_cont_nowait ==
  /\ pc = "cont"
  /\ \E r \in PtraceOutcomes(pid) : Issue("cont", r)
  /\ Ret("Running")
  /\ UNCHANGED <<k, cmd, from, pid, brk_addr, brk_val, filename, child, val, sba, image, mem, rip, live, forks, inst>>
do_continue_cont ==
  /\ pc = "cont"
  /\ \E r \in PtraceOutcomes(pid) : Issue("cont", r)
  /\ pc' = "wait_child"
  /\ UNCHANGED <<state, err, k, cmd, from, pid, brk_addr, brk_val, filename, child, val, sba, image, mem, rip, live, forks, inst>>

\* wait_child: blocks until the target stops, exits or is signaled
wait_child ==
  /\ pc = "wait_child"
  /\ \E w \in WaitOutcomes(pid) :
       /\ Issue("waitpid", w)
       /\ CASE w = "err" -> Fail("waitpid")
            [] w \in Terminal -> Ret("NotRunning")
            [] w = "Stopped" -> Ret("Running")
            [] OTHER -> Fail("process is in an invalid state")
       /\ live' = IF w \in Terminal THEN live \ {pid} ELSE live
       /\ rip' \in IF w = "Stopped" THEN RipVals ELSE {rip}
  /\ UNCHANGED <<k, cmd, from, pid, brk_addr, brk_val, filename, child, val, sba, image, mem, forks, inst>>

\* do_stepi: single-step one instruction, then wait
do_stepi ==
  /\ pc = "do_stepi"
  /\ \E r \in PtraceOutcomes(pid) :
       /\ Issue("step", r)
       /\ IF r = "ok"
            THEN pc' = "wait_child" /\ UNCHANGED <<state, err>>
            ELSE Fail("step")
  /\ UNCHANGED <<k, cmd, from, pid, brk_addr, brk_val, filename, child, val, sba, image, mem, rip, live, forks, inst>>

\* ---- do_exit -------------------------------------------------------------
Kills == Cardinality({i \in 1..Len(sys) : sys[i][1] = "kill"})

\* loop { ptrace::kill(self.info.pid)?;
do_exit_kill ==
  /\ pc = "do_exit"
  /\ \E r \in PtraceOutcomes(pid) :
       /\ Issue("kill", r)
       /\ IF r = "ok"
            THEN pc' = "do_exit_wait" /\ UNCHANGED <<state, err>>
            ELSE Fail("kill")
  /\ UNCHANGED <<k, cmd, from, pid, brk_addr, brk_val, filename, child, val, sba, image, mem, rip, live, forks, inst>>

\* what do_exit does with the status waitpid returned
do_exit_wait_anystatus(w) ==
  CASE w = "err" -> Fail("waitpid")
    [] OTHER -> Ret("Exit")
do_exit_wait_status(w) ==
  CASE w = "err" -> Fail("waitpid")
    [] w \in Terminal -> Ret("Exit")
    [] OTHER -> pc' = "do_exit" /\ UNCHANGED <<state, err>>

\*   match waitpid(self.info.pid, None)? { Exited | Signaled => return Ok(()), _ => () } }
do_exit_wait ==
  /\ pc = "do_exit_wait"
  /\ \E w \in WaitOutcomes(pid) :
       /\ w \in Terminal \cup {"err"} \/ Kills < MaxKills
       /\ Issue("waitpid", w)
       /\ do_exit_wait_status(w)
       /\ live' = IF w \in Terminal THEN live \ {pid} ELSE live
       /\ rip' \in IF w = "Stopped" THEN RipVals ELSE {rip}
  /\ UNCHANGED <<k, cmd, from, pid, brk_addr, brk_val, filename, child, val, sba, image, mem, forks, inst>>

\* ---- the session ---------------------------------------------------------
Next ==
  \/ NotRunning_empty \/ NotRunning_run \/ NotRunning_break \/ NotRunning_exit
  \/ NotRunning_misuse \/ NotRunning_common
  \/ do_run_fork \/ do_run_wait
  \/ Running_empty \/ Running_break \/ Running_continue \/ Running_registers
  \/ Running_stepi \/ Running_run \/ Running_exit \/ Running_common
  \/ registers_getregs
  \/ set_break_read \/ set_break_write
  \/ step_and_break_getregs \/ step_and_break_step \/ step_and_break_wait
  \/ do_continue_cont \/ wait_child \/ do_stepi
  \/ do_exit_kill \/ do_exit_wait

Spec == Init /\ [][Next]_vars

TypeOK ==
  /\ state \in {"NotRunning", "Running", "Exit", "Err"}
  /\ pc \in {"idle", "do_run", "do_run_wait", "set_break", "set_break_write",
             "step_and_break", "step_and_break_step", "step_and_break_wait",
             "cont", "wait_child", "do_stepi", "registers", "do_exit", "do_exit_wait"}
  /\ k \in {"", "ret", "step_and_break", "cont"}
  /\ cmd \in Cmds /\ from \in {"NotRunning", "Running"}
  /\ pid \in 0..MaxRuns /\ child \in 0..MaxRuns /\ forks \in 0..MaxRuns
  /\ brk_addr \in {None} \cup {Some(a) : a \in Addrs}
  /\ mem \in [Addrs -> Int] /\ image \in [Addrs -> ImgWords]
  /\ rip \in RipVals /\ live \subseteq 1..MaxRuns /\ sba \in BOOLEAN
  /\ Cardinality(inst) <= 1

\* ---- properties -----------------------------------------------------------
Last(q) == q[Len(q)]
IsBreak(c) == c # <<>> /\ c[1] \in {"break", "b"}
IsRun(c) == c # <<>> /\ c[1] \in {"run", "r"}

\* C1: a break command carrying a valid address records it (set_break_addr
\* returns true) exactly when no address is recorded yet; with an address
\* recorded it returns false, the command ends at once, and the recorded
\* address, the saved original value and the target's memory are unchanged.
C1_SingleSlot ==
  [][(pc = "idle" /\ IsBreak(cmd') /\ get_break_addr(cmd') # None) =>
       IF brk_addr = None
         THEN sba' /\ brk_addr' = get_break_addr(cmd')
         ELSE ~sba' /\ pc' = "idle" /\ state' = state
              /\ UNCHANGED <<brk_addr, brk_val, mem>>]_vars

C1_Witness ==
  /\ pc = "idle" /\ IsBreak(cmd) /\ from = "Running"
  /\ get_break_addr(cmd) # None /\ brk_addr # None
  /\ get_break_addr(cmd) # brk_addr /\ ~sba
  /\ \E a \in brk_addr : LowByte(mem[a]) = INT3 /\ brk_val = image[a]

\* C2: a successful write of set_break on word w at the breakpoint address
\* leaves there w with only its low byte replaced by 0xcc, and the low byte
\* of the saved original value is the low byte of w.
C2_Install ==
  [][(pc = "set_break_write" /\ Last(sys') = <<"write", "ok">>) =>
       \A a \in brk_addr :
         /\ mem'[a] \div BYTE = mem[a] \div BYTE
         /\ LowByte(mem'[a]) = INT3
         /\ LowByte(brk_val') = LowByte(mem[a])
         /\ \A b \in Addrs \ {a} : mem'[b] = mem[b]]_vars

C2_Witness ==
  /\ sys # <<>> /\ Last(sys) = <<"write", "ok">>
  /\ \E a \in brk_addr : image[a] = -171 /\ mem[a] = -52 /\ brk_val = -171

\* C3 (as claimed): whenever the trap byte has been patched over a byte
\* other than 0xcc at the breakpoint address of the live target, the saved
\* original byte is the byte the memory held before the first patch.
C3_SavedIsOriginal ==
  \A a \in brk_addr :
    (pid \in live /\ LowByte(mem[a]) = INT3 /\ LowByte(image[a]) # INT3)
      => LowByte(brk_val) = LowByte(image[a])

\* C4: the session starts NotRunning; NotRunning becomes Running only in a
\* run command whose fork succeeded and whose first wait reported a stop;
\* Running becomes NotRunning only in the step in which a wait on the target
\* reports exited or signaled; Exit is produced only by the exit command;
\* nothing is dispatched (no step is taken) from Exit.
C4_Lifecycle ==
  /\ state = "NotRunning"
  /\ [][/\ (state = "NotRunning" /\ state' = "Running") =>
             /\ IsRun(cmd') /\ Len(sys') >= 2
             /\ sys'[1] = <<"fork", "ok">> /\ sys'[2] = <<"waitpid", "Stopped">>
        /\ (state = "Running" /\ state' = "NotRunning") =>
             /\ Len(sys') = Len(sys) + 1
             /\ Last(sys')[1] = "waitpid" /\ Last(sys')[2] \in Terminal
        /\ (state # "Exit" /\ state' = "Exit") => cmd' = <<"exit">>
        /\ state # "Exit"]_vars

C4_Witness ==
  /\ state = "NotRunning" /\ from = "Running" /\ pc = "idle" /\ forks = 1
  /\ cmd \in {<<"continue">>, <<"c">>}
  /\ Last(sys) = <<"waitpid", "Exited">>

\* C5: when getregs, step, a non-terminal wait, read and write have all
\* succeeded in a row (step-over and reinstall), the word at the breakpoint
\* address is the word the first install in this process left there.
StepOverCycle ==
  /\ Len(sys) >= 5
  /\ sys[Len(sys) - 4] = <<"getregs", "ok">>
  /\ sys[Len(sys) - 3] = <<"step", "ok">>
  /\ sys[Len(sys) - 2][1] = "waitpid"
  /\ sys[Len(sys) - 1] = <<"read", "ok">>
  /\ sys[Len(sys)] = <<"write", "ok">>

C5_CycleIdentical ==
  StepOverCycle => \A a \in brk_addr : inst = {mem[a]}

\* the install of the run command succeeded, then the cycle ran
C5_Witness ==
  /\ StepOverCycle /\ Len(sys) = 9 /\ sys[4] = <<"write", "ok">>
  /\ \E a \in brk_addr : image[a] = -171 /\ mem[a] = -52

\* C6: step_and_break with the program counter off the recorded address, or
\* with no address recorded, issues nothing after getregs: it goes straight
\* to the Running branch of do_continue with memory, the address and the
\* saved value unchanged.
C6_NoOp ==
  [][(pc = "step_and_break" /\ Last(sys') = <<"getregs", "ok">>
        /\ brk_addr # Some(rip)) =>
       /\ pc' = "cont" /\ sys' = Append(sys, <<"getregs", "ok">>)
       /\ state' = state
       /\ UNCHANGED <<mem, brk_addr, brk_val, pid, live>>]_vars

C6_Witness ==
  /\ pc = "cont" /\ Last(sys) = <<"getregs", "ok">>
  /\ brk_addr # None /\ brk_addr # Some(rip)
  /\ \E a \in brk_addr : LowByte(mem[a]) = INT3 /\ mem[a] # image[a]

\* C7: in the exit command of a Running session the syscalls are kill, wait,
\* kill, wait, ...: every wait directly follows a successful kill, every
\* wait but the last reported a non-terminal status, and Exit is reached
\* only with a last wait that reported exited or signaled.
C7_KillBeforeWait ==
  (cmd = <<"exit">> /\ from = "Running") =>
    /\ \A i \in 1..Len(sys) :
         /\ (i % 2 = 1) => sys[i][1] = "kill"
         /\ (i % 2 = 0) => sys[i][1] = "waitpid" /\ sys[i - 1] = <<"kill", "ok">>
         /\ (i % 2 = 0 /\ i < Len(sys)) => sys[i][2] \notin Terminal \cup {"err"}
    /\ state = "Exit" =>
         /\ Len(sys) >= 2 /\ Len(sys) % 2 = 0
         /\ Last(sys)[2] \in Terminal

C7_Witness ==
  /\ state = "Exit" /\ from = "Running" /\ Len(sys) = 4
  /\ sys[2] = <<"waitpid", "Stopped">> /\ sys[4] = <<"waitpid", "Signaled">>

\* C8: in a run command, the handler goes on as a running-state debugger
\* only if the first wait reported a stop, and then the child's pid is
\* recorded; exited or signaled ends the command with the error "process
\* failed to start", any other status with "process is in an invalid state".
Launched ==
  \/ pc \notin {"idle", "do_run", "do_run_wait"}
  \/ pc = "idle" /\ state \in {"Running", "NotRunning"}

C8_LaunchOutcome ==
  (IsRun(cmd) /\ from = "NotRunning") =>
    /\ Launched =>
         /\ Len(sys) >= 2 /\ sys[2] = <<"waitpid", "Stopped">>
         /\ pid = child /\ pid \in 1..forks
    /\ (Len(sys) >= 2 /\ sys[2][2] \in Terminal) =>
         /\ state = "Err" /\ err = "process failed to start" /\ Len(sys) = 2
    /\ (Len(sys) >= 2 /\ sys[2][2] = "Other") =>
         /\ state = "Err" /\ err = "process is in an invalid state" /\ Len(sys) = 2

C8_Witness ==
  /\ IsRun(cmd) /\ state = "Err" /\ err = "process is in an invalid state"
  /\ sys = << <<"fork", "ok">>, <<"waitpid", "Other">> >>

\* C9 (as claimed): after a launch failure the session is in NotRunning.
LaunchFailed ==
  /\ IsRun(cmd) /\ pc = "idle" /\ Len(sys) = 2
  /\ sys[1] = <<"fork", "ok">> /\ sys[2][1] = "waitpid" /\ sys[2][2] \in Terminal

C9_BackToNotRunning ==
  LaunchFailed => state = "NotRunning"

\* C9 (amended): after a launch failure the run command has returned the
\* error "process failed to start" instead of a state: the session is not
\* NotRunning, and no command is dispatched after it.
C9_LaunchFailureIsError ==
  /\ [](LaunchFailed => (state = "Err" /\ err = "process failed to start"))
  /\ [][~LaunchFailed]_vars

C9_Witness ==
  /\ LaunchFailed /\ state = "Err" /\ sys[2][2] = "Exited" /\ brk_addr # None

\* C10: continue/c, stepi/s, registers/regs dispatched in NotRunning return
\* NotRunning at once, with no error, no trace syscall, and pid, brk_addr,
\* brk_val and filename (and the processes) unchanged.
C10_Misuse ==
  [][(state = "NotRunning" /\ pc = "idle" /\ cmd' # <<>> /\ cmd'[1] \in Misuse) =>
       /\ state' = "NotRunning" /\ pc' = "idle" /\ err' = err
       /\ sys' = <<>>
       /\ UNCHANGED <<info, mem, live, forks>>]_vars

C10_Witness ==
  /\ state = "NotRunning" /\ pc = "idle" /\ from = "NotRunning"
  /\ cmd # <<>> /\ cmd[1] \in Misuse /\ sys = <<>>
  /\ brk_addr # None /\ pid # 0

\* C11: at most one forked process is unreaped (not yet reported exited or
\* signaled by a wait) in every state; a run command dispatched in Running
\* returns Running at once: no fork, no syscall, pid and the processes
\* unchanged.
C11_OneTarget ==
  /\ [](Cardinality(live) <= 1)
  /\ [][(state = "Running" /\ pc = "idle" /\ IsRun(cmd')) =>
          /\ state' = "Running" /\ pc' = "idle" /\ sys' = <<>>
          /\ UNCHANGED <<pid, live, forks, mem>>]_vars

\* run rejected while the second target of the session is live
C11_Witness ==
  /\ state = "Running" /\ pc = "idle" /\ from = "Running" /\ IsRun(cmd)
  /\ sys = <<>> /\ forks = 2 /\ pid = 2 /\ live = {2}

\* set_break has returned Ok(()) to its caller, which goes on as a running
\* debugger: no error, no state transition
SetBreakReturned ==
  /\ state' = state /\ err' = err
  /\ IF k = "ret" THEN state' = "Running" /\ pc' = "idle" ELSE pc' = k

\* C12: a failed read in set_break attempts no write and leaves memory and
\* the saved value unchanged; a failed write leaves memory unchanged and
\* does not update the saved value; either way set_break returns Ok(()) to
\* its caller and no error is propagated.
C12_AccessFailureTolerated ==
  [][/\ (pc = "set_break" /\ Len(sys') = Len(sys) + 1 /\ Last(sys') = <<"read", "err">>) =>
          /\ pc' # "set_break_write"
          /\ UNCHANGED <<mem, brk_val, brk_addr>>
          /\ SetBreakReturned
     /\ (pc = "set_break_write" /\ Last(sys') = <<"write", "err">>) =>
          /\ UNCHANGED <<mem, brk_val, brk_addr>>
          /\ SetBreakReturned]_vars

\* a break command in Running whose write failed
C12_Witness ==
  /\ state = "Running" /\ pc = "idle" /\ IsBreak(cmd) /\ sba
  /\ sys = << <<"read", "ok">>, <<"write", "err">> >>
  /\ mem = image /\ brk_val = 0 /\ val # 0

Resumed == \E i \in 1..Len(sys) : sys[i][1] = "cont"

\* C13: a continue or run command that resumed the target (ptrace::cont)
\* returns only after a wait that directly follows the cont: Running if the
\* wait reported a stop, NotRunning (no error) if it reported exited or
\* signaled. So a run with no breakpoint recorded whose target runs to
\* completion becomes a running debugger at the first stop and returns
\* NotRunning.
C13_ResumeOutcome ==
  (pc = "idle" /\ Resumed) =>
    /\ Len(sys) >= 2
    /\ sys[Len(sys) - 1][1] = "cont" /\ Last(sys)[1] = "waitpid"
    /\ (Last(sys)[2] = "Stopped") => state = "Running"
    /\ (Last(sys)[2] \in Terminal) => (state = "NotRunning" /\ err = "")
    /\ (state \in {"Running", "NotRunning"}) => Last(sys)[2] \in Terminal \cup {"Stopped"}

C13_Witness ==
  /\ state = "NotRunning" /\ pc = "idle" /\ IsRun(cmd) /\ brk_addr = None
  /\ err = "" /\ pid = 1 /\ live = {}
  /\ sys = << <<"fork", "ok">>, <<"waitpid", "Stopped">>, <<"getregs", "ok">>,
              <<"cont", "ok">>, <<"waitpid", "Exited">> >>

\* C14 (as claimed): a failed getregs or single-step ends the command with
\* an error result, and the only failed trace requests (ptrace calls) that
\* do not end the command with an error are the read and the write of
\* set_break.
PtraceOps == {"getregs", "step", "cont", "kill", "read", "write"}

C14_FailuresSurface ==
  [][(Len(sys') = Len(sys) + 1 /\ Last(sys')[1] \in PtraceOps /\ Last(sys')[2] = "err") =>
       IF Last(sys')[1] \in {"read", "write"}
         THEN state' # "Err"
         ELSE state' = "Err" /\ pc' = "idle"]_vars

\* C15 (as claimed): the recorded pid is zero in every NotRunning state
\* (whenever the command loop holds State::NotRunning between commands).
C15_PidZeroWhenNotRunning ==
  (state = "NotRunning" /\ pc = "idle") => pid = 0

\* C15 (amended): the pid is never cleared. Between commands a NotRunning
\* session holds the pid of the latest launched target, which a wait has
\* reported exited or signaled; it is zero only before the first launch.
C15_PidKept ==
  /\ []((state = "NotRunning" /\ pc = "idle") => (pid = forks /\ pid \notin live))
  /\ [][pid # 0 => pid' # 0]_vars

\* the target exited in the single step of step_and_break
C15_Witness ==
  /\ state = "NotRunning" /\ pc = "idle" /\ pid = 1 /\ live = {}
  /\ Len(sys) >= 2 /\ sys[Len(sys) - 1] = <<"step", "ok">>
  /\ Last(sys) = <<"waitpid", "Exited">>

Steps == {i \in 1..Len(sys) : sys[i][1] = "step"}

\* C16 (as claimed): at the moment step_and_break issues the single step
\* the byte at the breakpoint address is the original one, not the patched
\* trap byte; a continue or run command issues at most one single step; and
\* a write after the step comes only after the wait that follows the step.
C16_StepOverProtocol ==
  /\ (pc = "step_and_break_step") =>
       \A a \in brk_addr : LowByte(mem[a]) = LowByte(image[a])
  /\ (cmd # <<>> /\ cmd[1] \in {"run", "r", "continue", "c"}) =>
       /\ Cardinality(Steps) <= 1
       /\ \A i \in Steps, j \in 1..Len(sys) :
            (j > i /\ sys[j][1] = "write") => (j >= i + 3 /\ sys[i + 1][1] = "waitpid")

\* the target has not been resumed (stepped or continued) in this command
NotResumedYet == \A i \in 1..Len(sys) : sys[i][1] \notin {"step", "cont"}
\* the handler is about to resume it
AboutToResume == pc \in {"step_and_break_step", "cont"}
RunReturned == IsRun(cmd) /\ from = "NotRunning" /\ pc = "idle"

\* C17 (as claimed): in a run command with a breakpoint address recorded,
\* when the target is about to be resumed for the first time the trap byte
\* is in its memory; and the command returns Running only after a cont and
\* the wait that follows it.
C17_TrapBeforeResume ==
  /\ (IsRun(cmd) /\ from = "NotRunning" /\ brk_addr # None
        /\ AboutToResume /\ NotResumedYet) =>
       \A a \in brk_addr : LowByte(mem[a]) = INT3
  /\ (RunReturned /\ state = "Running") =>
       (Len(sys) >= 2 /\ sys[Len(sys) - 1][1] = "cont" /\ Last(sys) = <<"waitpid", "Stopped">>)

\* C17 (amended): in a run command with a breakpoint address recorded,
\* set_break is run to its end before the target is resumed for the first
\* time, so that, unless its read or its write failed, the trap byte is in
\* memory (and the original word saved) at the first resume; the command
\* returns Running only after a cont and the wait that follows it.
C17_InstallBeforeResume ==
  /\ (IsRun(cmd) /\ from = "NotRunning" /\ brk_addr # None
        /\ AboutToResume /\ NotResumedYet) =>
       /\ Len(sys) >= 3 /\ sys[3][1] = "read"
       /\ (sys[3][2] = "ok") => (Len(sys) >= 4 /\ sys[4][1] = "write")
       /\ (sys[3][2] = "ok" /\ sys[4][2] = "ok") =>
            \A a \in brk_addr : mem[a] = val_int3(image[a]) /\ brk_val = image[a]
  /\ (IsRun(cmd) /\ from = "NotRunning" /\ pc \in {"set_break", "set_break_write"}
        /\ k = "step_and_break") => NotResumedYet
  /\ (RunReturned /\ state = "Running") =>
       (Len(sys) >= 2 /\ sys[Len(sys) - 1][1] = "cont" /\ Last(sys) = <<"waitpid", "Stopped">>)

C17_Witness ==
  /\ RunReturned /\ state = "Running" /\ brk_addr # None
  /\ sys = << <<"fork", "ok">>, <<"waitpid", "Stopped">>, <<"read", "ok">>,
              <<"write", "ok">>, <<"getregs", "ok">>, <<"cont", "ok">>,
              <<"waitpid", "Stopped">> >>
  /\ \E a \in brk_addr : image[a] = -171 /\ mem[a] = -52

\* C18: every trace request (read, write, step, cont, getregs, kill) is
\* issued on a process no wait has reported exited or signaled; and when the
\* wait after the single step of step_and_break reports exited or signaled,
\* the command returns NotRunning at once (no reinstall, no cont).
C18_NoOpAfterDeath ==
  [][/\ (Len(sys') = Len(sys) + 1 /\ Last(sys')[1] \in PtraceOps) =>
          (pid \in live /\ pid' = pid)
     /\ (pc = "step_and_break_wait" /\ Last(sys')[2] \in Terminal) =>
          (state' = "NotRunning" /\ pc' = "idle" /\ pid \notin live'
             /\ UNCHANGED <<mem, brk_val>>)]_vars

\* the target exited in the single step of a continue; the trap byte was
\* installed before
C18_Witness ==
  /\ state = "NotRunning" /\ pc = "idle" /\ cmd \in {<<"continue">>, <<"c">>}
  /\ sys = << <<"getregs", "ok">>, <<"step", "ok">>, <<"waitpid", "Signaled">> >>
  /\ pid \notin live /\ \E a \in brk_addr : LowByte(mem[a]) = INT3

\* ---- the session with a debugger that keeps running ------------------------
\* do_exit is a sequential loop: once in it, the debugger goes on to its next
\* kill and its next (blocking) wait. The tracee reports exited or signaled
\* at its MaxKills-th wait at the latest.
LiveSpec == Init /\ [][Next]_vars /\ WF_vars(do_exit_kill) /\ WF_vars(do_exit_wait)

InExitLoop == pc \in {"do_exit", "do_exit_wait"}
NoCallFailed == \A i \in 1..Len(sys) : sys[i][2] # "err"

\* C19: the kill-and-wait loop of the exit command ends: it reaches Exit,
\* unless a kill or wait call failed; and as long as no call failed and
\* every status observed is non-terminal, the loop has not ended.
C19_ExitLoopEnds ==
  /\ InExitLoop ~> (~InExitLoop /\ (state = "Exit" \/ ~NoCallFailed))
  /\ []((cmd = <<"exit">> /\ from = "Running" /\ NoCallFailed
           /\ \A i \in 1..Len(sys) : sys[i][2] \notin Terminal) => InExitLoop)

C19_Witness ==
  /\ state = "Exit" /\ from = "Running" /\ NoCallFailed
  /\ sys = << <<"kill", "ok">>, <<"waitpid", "Other">>,
              <<"kill", "ok">>, <<"waitpid", "Exited">> >>

\* C20: once recorded, the breakpoint address is never cleared or changed,
\* whatever happens (failed install, exit of the target, relaunch); every
\* install reads and writes at that address only, in every process of the
\* session, so memory differs from the image at most there; and every
\* break command dispatched with an address recorded is rejected.
C20_AddressKept ==
  /\ [][brk_addr # None => brk_addr' = brk_addr]_vars
  /\ [](\A b \in Addrs : mem[b] # image[b] => b \in brk_addr)
  /\ [][(Len(sys') = Len(sys) + 1 /\ Last(sys') = <<"write", "ok">>) =>
          \E a \in brk_addr : mem' = [mem EXCEPT ![a] = val_int3(mem[a])]]_vars
  /\ [][(pc = "idle" /\ IsBreak(cmd') /\ brk_addr # None) =>
          (~sba' /\ pc' = "idle")]_vars

\* the address recorded before the first run is installed in the second
\* process, and a break with another address is rejected there
C20_Witness ==
  /\ state = "Running" /\ pc = "idle" /\ forks = 2 /\ pid = 2 /\ live = {2}
  /\ IsBreak(cmd) /\ ~sba /\ get_break_addr(cmd) # None
  /\ get_break_addr(cmd) # brk_addr
  /\ \E a \in brk_addr : image[a] = -171 /\ mem[a] = -52

====
